---- MODULE Spec2Model ----
(***************************************************************************)
(* RDS extended-support cost estimator: the resumable multi-account scan   *)
(* of scripts/find_rds_extended_support_instances.py with the eligibility  *)
(* classifier and the price cache of scripts/utils/rds_mappings.py.        *)
(*                                                                         *)
(* One behaviour is a sequence of processes (runs) started with the same   *)
(* arguments in the same working directory.  The files on disk (the        *)
(* checkpoint .tmp_accounts_cache.json, the reports under ./output, the    *)
(* mapping rds_instance_mapping.json) survive from one run to the next;    *)
(* the module-level globals do not.                                        *)
(*                                                                         *)
(* Calls to remote services (STS, RDS, the Pricing API, the documentation  *)
(* page) may fail; reads and writes of local files do not.                 *)
(*                                                                         *)
(* Text is a sequence of one-character strings, so that `in`, split() and  *)
(* int() are computed and not assumed.                                     *)
(*                                                                         *)
(* Spec is the scan.  ClassifierSpec applies the eligibility classifier    *)
(* and CostSpec the cost calculator to one input each, on their own.       *)
(* PricingSpec applies the price resolver, and the calculator to the table *)
(* it returned, for a Pricing API that may lack products; in Spec the      *)
(* Pricing API holds every price or answers with empty price lists.        *)
(* ListingSpec applies the listing and the shortlisting to the pages of    *)
(* one region.                                                             *)
(* MappingSpec takes the regeneration of the instance-class mapping, one   *)
(* step of Spec's region iteration, apart into its reads and writes of the *)
(* global for two concurrent tasks.                                        *)
(***************************************************************************)
EXTENDS Integers, Sequences, FiniteSets, TLC

\* ---------------------------------------------------------------- bounds

\* Longest account pool given on the command line.
MaxPool == 2
\* Number of consecutive processes (runs) in one behaviour.
MaxRuns == 2
\* Longest tail of a version text given to the classifier on its own.
MaxTail == 4

\* ------------------------------------------------------------------ text

Digits == <<"0", "1", "2", "3", "4", "5", "6", "7", "8", "9">>

\* The substring of s starting at position i with the length of sub equals sub.
MatchAt(sub, s, i) ==
    /\ i + Len(sub) - 1 <= Len(s)
    /\ \A k \in 1..Len(sub) : s[i + k - 1] = sub[k]

\* Python: sub in s
Contains(sub, s) == \E i \in 1..(Len(s) + 1) : MatchAt(sub, s, i)

\* Position of the first occurrence of the character c in s, 0 if none.
FirstIndex(c, s) ==
    IF \E i \in 1..Len(s) : s[i] = c
    THEN CHOOSE i \in 1..Len(s) : s[i] = c /\ \A j \in 1..(i - 1) : s[j] # c
    ELSE 0

\* Python: s.split(c)[0]
SplitFirst(s, c) ==
    IF FirstIndex(c, s) = 0 THEN s ELSE SubSeq(s, 1, FirstIndex(c, s) - 1)

DigitValue(ch) == (CHOOSE d \in 1..10 : Digits[d] = ch) - 1

RECURSIVE ParseInt(_)
\* Python: int(s) for a text of decimal digits
ParseInt(s) ==
    IF Len(s) = 0 THEN 0
    ELSE 10 * ParseInt(SubSeq(s, 1, Len(s) - 1)) + DigitValue(s[Len(s)])

\* ------------------------------------------------------------ the estate

\* The payer (management) account runs the script; the other is a member.
caller_account == "111"
AccountIds == {"111", "222"}

\* REGIONS, in the iteration order of the dict.
Regions == <<"us-east-1", "eu-west-1">>

aurora_mysql      == <<"a","u","r","o","r","a","-","m","y","s","q","l">>
aurora_postgresql == <<"a","u","r","o","r","a","-","p","o","s","t","g","r","e","s","q","l">>
mysql             == <<"m","y","s","q","l">>
postgres          == <<"p","o","s","t","g","r","e","s">>
aurora            == <<"a","u","r","o","r","a">>
mariadb           == <<"m","a","r","i","a","d","b">>

EngineFamilies == {mysql, postgres, aurora}

\* The instances that exist in the organization.
Instances ==
    [ i1 |-> [Engine |-> mysql, EngineVersion |-> <<"5",".","7",".","4","4">>,
              DBInstanceClass |-> "db.m5.large", MultiAZ |-> FALSE],
      i2 |-> [Engine |-> postgres, EngineVersion |-> <<"1","3",".","4">>,
              DBInstanceClass |-> "db.m5.large", MultiAZ |-> FALSE],
      i3 |-> [Engine |-> aurora_mysql,
              EngineVersion |-> <<"5",".","7",".","m","y","s","q","l","_","a","u","r","o","r","a",".","2",".","1","1",".","2">>,
              DBInstanceClass |-> "db.r5.large", MultiAZ |-> TRUE],
      i4 |-> [Engine |-> postgres, EngineVersion |-> <<"1","1",".","2","2">>,
              DBInstanceClass |-> "db.m5.xlarge", MultiAZ |-> TRUE],
      i5 |-> [Engine |-> aurora_postgresql, EngineVersion |-> <<"1","1",".","9">>,
              DBInstanceClass |-> "db.r6g.large", MultiAZ |-> FALSE],
      i6 |-> [Engine |-> mariadb, EngineVersion |-> <<"1","0",".","1","1",".","5">>,
              DBInstanceClass |-> "db.m5.large", MultiAZ |-> FALSE] ]

\* The database instances of an account in a region, in pages of the listing.
Inventory(account, region) ==
    CASE account = "111" /\ region = "us-east-1" -> << <<"i2">>, <<"i1">> >>
      [] account = "111" /\ region = "eu-west-1" -> << <<"i3">> >>
      [] account = "222" /\ region = "us-east-1" -> << <<"i4">> >>
      [] account = "222" /\ region = "eu-west-1" -> << <<"i6", "i5">> >>
      [] OTHER -> << >>

\* The documentation's table of instance classes: class -> default vCPUs (text).
ReferenceMapping ==
    [ c \in {"db.m5.large", "db.r5.large", "db.m5.xlarge", "db.r6g.large"} |->
        IF c = "db.m5.xlarge" THEN <<"4">> ELSE <<"2">> ]

\* An rds_instance_mapping.json written before db.r6g.large was documented.
StaleMapping ==
    [ c \in {"db.m5.large", "db.r5.large", "db.m5.xlarge"} |-> ReferenceMapping[c] ]

\* What the Pricing API holds per engine family, region and year tier, in units
\* of 1/10000 USD per vCPU-hour (1000 = $0.10).
PriceSource(family) ==
    CASE family = mysql ->
           [ r \in {"us-east-1", "eu-west-1"} |->
               IF r = "us-east-1" THEN [yr_1_2_price |-> 1000, yr_3_price |-> 2000]
                                  ELSE [yr_1_2_price |-> 1160, yr_3_price |-> 2320] ]
      [] family = postgres ->
           [ r \in {"us-east-1", "eu-west-1"} |->
               IF r = "us-east-1" THEN [yr_1_2_price |-> 1200, yr_3_price |-> 2400]
                                  ELSE [yr_1_2_price |-> 1392, yr_3_price |-> 2784] ]
      [] family = aurora ->
           [ r \in {"us-east-1", "eu-west-1"} |->
               IF r = "us-east-1" THEN [yr_1_2_price |-> 1100, yr_3_price |-> 2200]
                                  ELSE [yr_1_2_price |-> 1276, yr_3_price |-> 2552] ]

\* year_options (lines 259-262): the keys of the two year tiers.
YearCodes == {"yr_1_2_price", "yr_3_price"}

\* The PriceList the Pricing API returns for a family and a year tier when it
\* holds every price: one product per region, priced in USD.
PriceList(family, year_code) ==
    { [regionCode |-> r, currency |-> "USD",
       price |-> PriceSource(family)[r][year_code]] :
        r \in DOMAIN PriceSource(family) }

\* The Pricing API with every price list, and one that answers every query
\* with an empty PriceList.
PricingAPI == [f \in EngineFamilies |-> [y \in YearCodes |-> PriceList(f, y)]]
NoPriceLists == [f \in EngineFamilies |-> [y \in YearCodes |-> {}]]

\* An empty dict / a file that does not exist.
EmptyMap == << >>
NoFile == [exists |-> FALSE, content |-> << >>]
FileOf(content) == [exists |-> TRUE, content |-> content]

\* The elements of a list.
Elems(s) == { s[k] : k \in 1..Len(s) }

\* get_all_org_accounts(org_client): the ACTIVE accounts of the organization.
OrgAccounts == <<"111", "222">>

\* An account id that is not a member of the organization.
Stranger == "999"

\* The account lists --accounts or the accounts file can name, duplicates and
\* non-members included.
AccountLists == UNION { [1..n -> AccountIds \cup {Stranger}] : n \in 0..MaxPool }

\* args.exclude_accounts when the option is not given.
NoExclude == "None"

\* parse_args(): the account-selection option of the mutually exclusive group
\* ("payer" when none is given), its list, and --exclude-accounts.
Args ==
    { a \in [mode : {"all", "accounts", "accounts_file", "payer"},
             list : AccountLists,
             exclude_accounts : {NoExclude, <<"222">>}] :
        /\ a.mode \in {"all", "payer"} => a.list = << >>
        /\ a.mode = "accounts" => a.list # << >> }

\* --------------------------------------------------- eligibility classifier

\* Variant: the aurora-mysql rule knows the 2.11 family only.
is_extended_support_eligible_Only211(rds_instance) ==
    LET engine  == rds_instance.Engine
        version == rds_instance.EngineVersion
        major   == SplitFirst(version, ".")
    IN  \/ /\ engine = aurora_mysql
           /\ Contains(<<"m","y","s","q","l","_","a","u","r","o","r","a",".","2",".","1","1">>, version)
        \/ /\ engine = aurora_postgresql
           /\ version \in { <<"1","1",".","9">>, <<"1","1",".","2","1">>,
                            <<"1","2",".","9">>, <<"1","2",".","2","2">> }
        \/ /\ engine = mysql
           /\ Contains(<<"5",".","7">>, version)
        \/ /\ engine = postgres
           /\ (Contains(<<"1","1">>, major) \/ Contains(<<"1","2">>, major))

\* is_extended_support_eligible(rds_instance)
is_extended_support_eligible(rds_instance) ==
    LET engine  == rds_instance.Engine
        version == rds_instance.EngineVersion
        major   == SplitFirst(version, ".")
    IN  \/ /\ engine = aurora_mysql
           /\ \/ Contains(<<"m","y","s","q","l","_","a","u","r","o","r","a",".","2",".","1","1">>, version)
              \/ Contains(<<"m","y","s","q","l","_","a","u","r","o","r","a",".","2",".","1","2">>, version)
        \/ /\ engine = aurora_postgresql
           /\ version \in { <<"1","1",".","9">>, <<"1","1",".","2","1">>,
                            <<"1","2",".","9">>, <<"1","2",".","2","2">> }
        \/ /\ engine = mysql
           /\ Contains(<<"5",".","7">>, version)
        \/ /\ engine = postgres
           /\ (Contains(<<"1","1">>, major) \/ Contains(<<"1","2">>, major))

\* ------------------------------------------------------------ price cache

\* get_price_map(db_engine), lines 254-315, with the price lists `api` the
\* Pricing API holds: an empty PriceList of a year tier raises; every product
\* of a list makes an entry for its region, and a product priced in USD puts
\* the tier's price into it.
get_price_map(db_engine, api) ==
    LET price_list == api[db_engine]
        regions    == { sku.regionCode :
                          sku \in UNION { price_list[y] : y \in YearCodes } }
        InUSD(r, y) == { sku \in price_list[y] :
                           sku.regionCode = r /\ sku.currency = "USD" }
    IN  [raised    |-> \E y \in YearCodes : price_list[y] = {},
         price_map |-> [ r \in regions |->
                           [ y \in { c \in YearCodes : InUSD(r, c) # {} } |->
                               (CHOOSE sku \in InUSD(r, y) : TRUE).price ] ]]

\* Variant: the global table is not consulted, every call asks the Pricing API.
get_rds_extended_support_pricing_NoCache(db_engine, cache, api) ==
    IF get_price_map(db_engine, api).raised
    THEN [raised |-> TRUE, table |-> EmptyMap, cache |-> cache, fetched |-> TRUE]
    ELSE [raised |-> FALSE, table |-> get_price_map(db_engine, api).price_map,
          cache |-> get_price_map(db_engine, api).price_map, fetched |-> TRUE]

\* get_rds_extended_support_pricing(db_engine), on the global db_engine_price_map
\* `cache` and the price lists `api` of the Pricing API.  Returns the table,
\* the cache afterwards, whether the call raised, and whether it called the
\* Pricing API.
get_rds_extended_support_pricing(db_engine, cache, api) ==
    IF DOMAIN cache # {}
    THEN [raised |-> FALSE, table |-> cache, cache |-> cache, fetched |-> FALSE]
    ELSE IF get_price_map(db_engine, api).raised
         THEN [raised |-> TRUE, table |-> EmptyMap, cache |-> cache, fetched |-> TRUE]
         ELSE [raised |-> FALSE, table |-> get_price_map(db_engine, api).price_map,
               cache |-> get_price_map(db_engine, api).price_map, fetched |-> TRUE]

\* ---------------------------------------------------------- cost calculator

\* row['Engine'].split('-')[0]
EngineFamily(engine) == SplitFirst(engine, "-")

\* "${0:,.2f}".format(x): x, in 1/10000 USD, rounded to cents.
FormatPrice(x) == (x + 50) \div 100

\* A shortlisted instance as the row of the data frame (lines 140-150, 194):
\* the keys copied from the listed instance, which the lists of the tasks and
\* the report hold by the instance's identifier.
Row(shortlist_instance) ==
    [inst          |-> shortlist_instance.inst,
     Engine        |-> Instances[shortlist_instance.inst].Engine,
     EngineVersion |-> Instances[shortlist_instance.inst].EngineVersion,
     MultiAZ       |-> Instances[shortlist_instance.inst].MultiAZ,
     AccountId     |-> shortlist_instance.AccountId,
     Region        |-> shortlist_instance.Region,
     vCPUs         |-> shortlist_instance.vCPUs]

\* Variant: MultiAZ does not double the vCPUs.
get_total_vcpus_Single(row) == ParseInt(row.vCPUs)

\* save_to_csv.get_total_vcpus
get_total_vcpus(row) ==
    IF row.MultiAZ = TRUE
    THEN 2 * ParseInt(row.vCPUs)
    ELSE ParseInt(row.vCPUs)

\* save_to_csv.get_y1_price, given the table the price lookup returned
get_y1_price(row, total, provisioned_price_map) ==
    total * provisioned_price_map[row.Region].yr_1_2_price * 24 * 365

\* The rate save_to_csv.get_y3_price selects.
Y3Rate(row, provisioned_price_map) ==
    LET version == row.EngineVersion
    IN  IF \/ Contains(<<"m","y","s","q","l","_","a","u","r","o","r","a",".","2",".","1","1">>, version)
           \/ Contains(<<"m","y","s","q","l","_","a","u","r","o","r","a",".","2",".","1","2">>, version)
        THEN provisioned_price_map[row.Region].yr_1_2_price
        ELSE provisioned_price_map[row.Region].yr_3_price

\* save_to_csv.get_y3_price, given the table the price lookup returned
get_y3_price(row, total, provisioned_price_map) ==
    total * Y3Rate(row, provisioned_price_map) * 24 * 365

\* The key of the year tier get_y1_price (year 1) or get_y3_price (year 3)
\* reads for the row.
YearCode(row, year) ==
    IF year = 1
       \/ Contains(<<"m","y","s","q","l","_","a","u","r","o","r","a",".","2",".","1","1">>, row.EngineVersion)
       \/ Contains(<<"m","y","s","q","l","_","a","u","r","o","r","a",".","2",".","1","2">>, row.EngineVersion)
    THEN "yr_1_2_price"
    ELSE "yr_3_price"

\* provisioned_price_map[region_name][...] (lines 173, 185, 187) raises
\* KeyError: the table has no entry for the row's region, or the entry has
\* no price of the year tier.
KeyError(row, year, provisioned_price_map) ==
    \/ row.Region \notin DOMAIN provisioned_price_map
    \/ YearCode(row, year) \notin DOMAIN provisioned_price_map[row.Region]

\* The derived columns of one row before they are formatted (lines 196-200),
\* given the table the price lookup returned.
CostLine(row, provisioned_price_map) ==
    LET total == get_total_vcpus(row)
    IN  [Total |-> total,
         Year1 |-> get_y1_price(row, total, provisioned_price_map),
         Year2 |-> get_y1_price(row, total, provisioned_price_map),
         Year3 |-> get_y3_price(row, total, provisioned_price_map)]

\* The element of a set of one element.
TheOne(S) == CHOOSE x \in S : TRUE

\* One cell of a price column and the cells below it: the row's lookup `got`,
\* the price computed from the table it returned, and `rest`, the column of the
\* rows that follow.
PriceCell(row, year, cache, got, rest) ==
    LET total  == get_total_vcpus(row)
        price  == IF year = 1 THEN get_y1_price(row, total, got.table)
                              ELSE get_y3_price(row, total, got.table)
        lookup == [family |-> EngineFamily(row.Engine), table |-> got.table,
                   fetched |-> got.fetched]
    IN  IF got.raised
        THEN [raised |-> TRUE, column |-> << >>, lookups |-> {}, cache |-> cache]
        ELSE IF KeyError(row, year, got.table)
        THEN [raised |-> TRUE, column |-> << >>, lookups |-> {lookup},
              cache |-> got.cache]
        ELSE IF rest.raised
        THEN [raised |-> TRUE, column |-> << >>,
              lookups |-> {lookup} \cup rest.lookups, cache |-> rest.cache]
        ELSE [raised |-> FALSE,
              column |-> <<FormatPrice(price)>> \o rest.column,
              lookups |-> {lookup} \cup rest.lookups,
              cache |-> rest.cache]

RECURSIVE PriceColumn(_, _, _, _)
\* df.apply(get_y1_price) / df.apply(get_y3_price): one price lookup per row, in
\* row order, threading the cache.  year is 1 or 3.  Returns the column, the
\* lookups made (requested family, table returned, whether the Pricing API was
\* called), the cache, and raised.  The rows after one that raised are not
\* looked up.
PriceColumn(rows, year, cache, api) ==
    IF Len(rows) = 0
    THEN [raised |-> FALSE, column |-> << >>, lookups |-> {}, cache |-> cache]
    ELSE TheOne(UNION {
             { PriceCell(Row(rows[1]), year, cache, got, rest) :
                 rest \in { IF got.raised \/ KeyError(Row(rows[1]), year, got.table)
                            THEN [raised |-> TRUE]
                            ELSE PriceColumn(Tail(rows), year, got.cache, api) } } :
             got \in { get_rds_extended_support_pricing(
                          EngineFamily(Row(rows[1]).Engine), cache, api) } })

\* The data frame of save_to_csv, given its Year 1 and Year 3 price columns.
Frame(rds_extended_support_instances, y1, y3) ==
    IF y1.raised \/ y3.raised
    THEN [raised |-> TRUE, rows |-> << >>,
          lookups |-> IF y1.raised THEN y1.lookups
                      ELSE y1.lookups \cup y3.lookups,
          cache |-> IF y1.raised THEN y1.cache ELSE y3.cache]
    ELSE [raised |-> FALSE,
          rows |-> [ k \in 1..Len(rds_extended_support_instances) |->
                      [inst      |-> rds_extended_support_instances[k].inst,
                       AccountId |-> rds_extended_support_instances[k].AccountId,
                       Region    |-> rds_extended_support_instances[k].Region,
                       vCPUs     |-> rds_extended_support_instances[k].vCPUs,
                       Total     |-> get_total_vcpus(Row(rds_extended_support_instances[k])),
                       Year1     |-> y1.column[k],
                       Year2     |-> y1.column[k],
                       Year3     |-> y3.column[k]] ],
          lookups |-> y1.lookups \cup y3.lookups,
          cache |-> y3.cache]

\* The data frame save_to_csv builds from the shortlisted instances: the report
\* rows, the price lookups made, the cache afterwards, and whether it raised.
\* The Year 3 column is computed after the Year 1 column, with the cache the
\* Year 1 lookups left.
CostFrame(rds_extended_support_instances, cache, api) ==
    TheOne(UNION {
        { Frame(rds_extended_support_instances, y1, y3) :
            y3 \in { IF y1.raised THEN [raised |-> TRUE]
                     ELSE PriceColumn(rds_extended_support_instances, 3, y1.cache, api) } } :
        y1 \in { PriceColumn(rds_extended_support_instances, 1, cache, api) } })

\* ------------------------------------------------------------------ state

VARIABLES
    run,                  \* number of the current process
    prevOutcome,          \* how the previous process ended: "none", "ok", "failed"
    account_pool,         \* main: account_pool, the same in every run
    exclude_without_all,  \* the arguments gave --exclude-accounts and not --all
    probe,                \* the classifier and the cost calculator applied to one input
    phase,                \* main: "select", "invalid", "start", "dispatch", "wait",
                          \* "raise", "ok", "failed"
    next,                 \* main: position in account_pool the dispatch has reached
    tasks,                \* per pool position: the future's state, region index, rows,
                          \* regions finished and skipped, roles assumed, cause
                          \* of failure
    lock,                 \* lock: the pool position of the holder, 0 when free
    processed_accounts,   \* the global list processed_accounts
    loaded,               \* what processed_accounts held after module import
    cacheFile,            \* .tmp_accounts_cache.json
    report,               \* the file at the path outfile: the rows below the header
    DB_INSTANCE_MAPPING,  \* the global DB_INSTANCE_MAPPING
    mappingFile,          \* rds_instance_mapping.json
    db_engine_price_map,  \* rds_mappings.db_engine_price_map
    calls,                \* the accounts get_rds_client was called for in this process
    appended,             \* accounts whose save_to_csv has returned in this process
    reported,             \* per checkpointed account: the instances of the rows its save_to_csv appended
    lookupLog             \* price lookups of this process: family asked, table
                          \* returned, whether the Pricing API was called

vars == << run, prevOutcome, account_pool, exclude_without_all, probe,
           phase, next, tasks, lock,
           processed_accounts, loaded, cacheFile, report,
           DB_INSTANCE_MAPPING, mappingFile, db_engine_price_map,
           calls, appended, reported, lookupLog >>

Positions == 1..MaxPool
NoTask == [pc |-> "none", region |-> 0, rows |-> << >>, visited |-> 0,
           skipped |-> {}, roles |-> 0, cause |-> "none"]

\* Variant: a task that raised is put back among the accounts not yet submitted.
Failed_Requeued(cause) == NoTask

\* An exception leaves get_rds_extended_support_instances: the future holds it
\* and future.result() raises it in main (lines 283-288).  cause is "listing"
\* or "InvalidClientTokenId" when get_rds_instances raised, "pricing" when
\* save_to_csv raised, "other" otherwise.
Failed(cause) == [NoTask EXCEPT !.pc = "failed", !.cause = cause]

Dispatched == { i \in Positions : tasks[i].pc # "none" }
Terminal(i) == tasks[i].pc \in {"done", "failed"}

\* No input is being probed.
NoProbe == [kind |-> "none"]

\* Module import: lines 54-76 of the script, and main up to the mapping load.
MainInit ==
    /\ run = 1
    /\ prevOutcome = "none"
    /\ account_pool = << >>
    /\ exclude_without_all = FALSE
    /\ phase = "select"
    /\ next = 1
    /\ tasks = [i \in Positions |-> NoTask]
    /\ lock = 0
    /\ processed_accounts = << >>
    /\ loaded = << >>
    /\ cacheFile = NoFile
    /\ report = NoFile
    /\ mappingFile = StaleMapping
    /\ DB_INSTANCE_MAPPING = mappingFile
    /\ db_engine_price_map = EmptyMap
    /\ calls = {}
    /\ appended = {}
    /\ reported = [a \in AccountIds |-> {}]
    /\ lookupLog = {}

Init == MainInit /\ probe = NoProbe

\* ------------------------------------------------------------- collector

RECURSIVE Flatten(_)
\* The instances of a list of pages, in order.
Flatten(pages) ==
    IF Len(pages) = 0 THEN << >> ELSE pages[1] \o Flatten(Tail(pages))

\* The Values of the engine filter of paginate (line 106).
EngineFilter == {aurora_postgresql, aurora_mysql, mysql, postgres}

\* describe_db_instances with the engine filter: the pages of the account's
\* instances in the region whose engine is one of the filter's values.
describe_db_instances(account, region) ==
    [ p \in 1..Len(Inventory(account, region)) |->
        SelectSeq(Inventory(account, region)[p],
                  LAMBDA id : Instances[id].Engine \in EngineFilter) ]

\* get_rds_instances(rds_client) for a listing of the pages `pages` that
\* answers "ok" (all pages), "skip" (InvalidClientTokenId met after pages_read
\* pages) or "error": the list rds_instances it returns when it does not raise.
get_rds_instances(pages, answer, pages_read) ==
    IF answer = "ok"
    THEN Flatten(pages)
    ELSE Flatten(SubSeq(pages, 1, pages_read))

\* Variant: every listed instance is shortlisted.
Shortlisted_All(instance) == TRUE

\* The condition of line 138.
Shortlisted(instance) == is_extended_support_eligible(instance)

\* Variant: the class is never taken as unknown, the mapping is never regenerated.
MissingClass_Never(class, mapping) == FALSE

\* The condition of line 146.
MissingClass(class, mapping) == class \notin DOMAIN mapping

RECURSIVE Shortlist(_, _, _, _, _)
\* The body of the loop over rds_instances in get_rds_extended_support_instances:
\* classify, look the class up, regenerate the mapping when it is unknown.
\* docs_ok says whether the documentation page can be fetched.
Shortlist(rds_instances, account_id, region, mapping, docs_ok) ==
    IF Len(rds_instances) = 0
    THEN [raised |-> FALSE, rows |-> << >>, mapping |-> mapping, regenerated |-> FALSE]
    ELSE LET id    == rds_instances[1]
             class == Instances[id].DBInstanceClass
             miss  == MissingClass(class, mapping)
             m1    == IF miss /\ docs_ok THEN ReferenceMapping ELSE mapping
             rest  == Shortlist(Tail(rds_instances), account_id, region, m1, docs_ok)
         IN  IF ~Shortlisted(Instances[id])
             THEN Shortlist(Tail(rds_instances), account_id, region, mapping, docs_ok)
             ELSE IF (miss /\ ~docs_ok) \/ class \notin DOMAIN m1
             THEN [raised |-> TRUE, rows |-> << >>, mapping |-> m1,
                   regenerated |-> miss /\ docs_ok]
             ELSE TheOne({ [raised |-> following.raised,
                            rows |-> << [inst |-> id, AccountId |-> account_id,
                                         Region |-> region, vCPUs |-> m1[class]] >>
                                     \o following.rows,
                            mapping |-> following.mapping,
                            regenerated |-> (miss /\ docs_ok) \/ following.regenerated] :
                           following \in {rest} })

\* ----------------------------------------------------------- main thread

RECURSIVE RemoveFirst(_, _)
\* list.remove(x): the list without the first occurrence of x.
RemoveFirst(list, x) ==
    IF Len(list) = 0 THEN << >>
    ELSE IF list[1] = x THEN Tail(list)
    ELSE <<list[1]>> \o RemoveFirst(Tail(list), x)

RECURSIVE Exclude(_, _)
\* The loop of lines 251-253: each excluded account that is in the pool is
\* removed from it.
Exclude(pool, exclude_accounts) ==
    IF Len(exclude_accounts) = 0 THEN pool
    ELSE Exclude(IF exclude_accounts[1] \in Elems(pool)
                 THEN RemoveFirst(pool, exclude_accounts[1]) ELSE pool,
                 Tail(exclude_accounts))

\* validate_org_accounts raises for an account that is not in the organization.
validate_org_accounts(input_accounts, all_member_accounts) ==
    \E k \in 1..Len(input_accounts) : input_accounts[k] \notin Elems(all_member_accounts)

\* main, lines 245-270: the account pool the arguments select, or the
\* ValidationException raised.
SelectPool(args) ==
    CASE args.mode = "all" ->
           [raised |-> FALSE,
            pool |-> IF args.exclude_accounts # NoExclude
                     THEN Exclude(OrgAccounts, args.exclude_accounts)
                     ELSE OrgAccounts]
      [] args.mode \in {"accounts", "accounts_file"} ->
           IF args.exclude_accounts # NoExclude
           THEN [raised |-> TRUE, pool |-> << >>]
           ELSE [raised |-> validate_org_accounts(args.list, OrgAccounts),
                 pool |-> args.list]
      [] OTHER ->
           [raised |-> FALSE, pool |-> <<caller_account>>]

\* main, lines 213 and 245-270, with the arguments of the command line.
SelectAccounts ==
    /\ phase = "select"
    /\ \E args \in Args :
         /\ exclude_without_all' =
                (args.exclude_accounts # NoExclude /\ args.mode # "all")
         /\ account_pool' = SelectPool(args).pool
         /\ phase' = IF SelectPool(args).raised THEN "invalid" ELSE "start"
    /\ UNCHANGED << probe, run, prevOutcome, next, tasks, lock,
                    processed_accounts, loaded, cacheFile, report,
                    DB_INSTANCE_MAPPING, mappingFile, db_engine_price_map,
                    calls, appended, reported, lookupLog >>

\* main, lines 274-275: the header row is written with mode 'w'.
WriteHeader ==
    /\ phase = "start"
    /\ report' = FileOf(<< >>)
    /\ phase' = IF Len(account_pool) = 0 THEN "wait" ELSE "dispatch"
    /\ UNCHANGED << probe, exclude_without_all, run, prevOutcome, account_pool, next, tasks, lock,
                    processed_accounts, loaded, cacheFile,
                    DB_INSTANCE_MAPPING, mappingFile, db_engine_price_map,
                    calls, appended, reported, lookupLog >>

\* Variant: no filter, every account of the pool is submitted.
ShouldSubmit_Always(account) == TRUE

\* Variant: the filter inverted.
ShouldSubmit_Inverted(account) == account \in Elems(processed_accounts)

\* The filter of the set comprehension, lines 278-280.
ShouldSubmit(account) == account \notin Elems(processed_accounts)

\* One step of the set comprehension: executor.submit for the next account that
\* is not in processed_accounts.  The pool is shorter than max_workers=100, so
\* the call gets a worker thread at once.
Submit ==
    /\ phase = "dispatch"
    /\ next <= Len(account_pool)
    /\ tasks' = IF ShouldSubmit(account_pool[next])
                THEN [tasks EXCEPT ![next] = [NoTask EXCEPT !.pc = "collect",
                                                            !.region = 1]]
                ELSE tasks
    /\ next' = next + 1
    /\ phase' = IF next = Len(account_pool) THEN "wait" ELSE "dispatch"
    /\ UNCHANGED << probe, exclude_without_all, run, prevOutcome, account_pool, lock,
                    processed_accounts, loaded, cacheFile, report,
                    DB_INSTANCE_MAPPING, mappingFile, db_engine_price_map,
                    calls, appended, reported, lookupLog >>

\* ---------------------------------------------------------- account task

\* Variant: the role is assumed for the payer account too.
get_rds_client_AlwaysAssume(account_id_, payer_account_, region_) ==
    [region_name |-> region_, assumed |-> TRUE]

\* get_rds_client(account_id_, payer_account_, region_): the client's region,
\* and whether sts assume_role was called to build it.
get_rds_client(account_id_, payer_account_, region_) ==
    [region_name |-> region_, assumed |-> account_id_ # payer_account_]

\* Variant: InvalidClientTokenId is re-raised like any other error.
AbortsTask_Any(answer) == answer # "ok"

\* The except clauses of get_rds_instances (lines 109-117): which answer of the
\* listing is raised to the task.
AbortsTask(answer) == answer = "error"

\* Variant: the loop over REGIONS ends after its first iteration.
LastRegion_First(region) == TRUE

\* `for region in REGIONS` (line 130) has no region after this one.
LastRegion(region) == region = Len(Regions)

\* One iteration of `for region in REGIONS` (lines 130-152) of task i.
Collect(i) ==
    /\ tasks[i].pc = "collect"
    /\ LET account == account_pool[i]
           region  == Regions[tasks[i].region]
           pages   == describe_db_instances(account, region)
           client  == get_rds_client(account, caller_account, region)
           roles   == tasks[i].roles + (IF client.assumed THEN 1 ELSE 0)
       IN  /\ calls' = calls \cup {account}
           /\ \/ \E answer \in {"ok", "skip", "error"} :
                    /\ AbortsTask(answer)
                    /\ tasks' = [tasks EXCEPT ![i] =
                          Failed(IF answer = "error" THEN "listing"
                                 ELSE "InvalidClientTokenId")]
                    /\ UNCHANGED << DB_INSTANCE_MAPPING, mappingFile >>
              \/ \E answer \in {"ok", "skip", "error"}, pages_read \in 0..Len(pages),
                    docs_ok \in BOOLEAN :
                    /\ ~AbortsTask(answer)
                    /\ answer = "ok" => pages_read = Len(pages)
                    /\ answer = "skip" => pages_read < Len(pages) \/ Len(pages) = 0
                    /\ \E got \in {Shortlist(get_rds_instances(pages, answer, pages_read),
                                              account, region, DB_INSTANCE_MAPPING, docs_ok)} :
                         /\ docs_ok \/ got.raised
                         /\ DB_INSTANCE_MAPPING' = got.mapping
                         /\ mappingFile' = IF got.regenerated THEN ReferenceMapping
                                           ELSE mappingFile
                         /\ tasks' = [tasks EXCEPT ![i] =
                              IF got.raised
                              THEN Failed("other")
                              ELSE [pc      |-> IF LastRegion(tasks[i].region)
                                                THEN "lock" ELSE "collect",
                                    region  |-> IF LastRegion(tasks[i].region)
                                                THEN 0 ELSE tasks[i].region + 1,
                                    rows    |-> tasks[i].rows \o got.rows,
                                    visited |-> tasks[i].visited + 1,
                                    skipped |-> IF answer = "skip"
                                                THEN tasks[i].skipped \cup {tasks[i].region}
                                                ELSE tasks[i].skipped,
                                    roles   |-> roles,
                                    cause   |-> "none"]]
    /\ UNCHANGED << probe, exclude_without_all, run, prevOutcome, account_pool, phase, next, lock,
                    processed_accounts, loaded, cacheFile, report,
                    db_engine_price_map, appended, reported, lookupLog >>

\* Variant: the lock is granted while another task holds it.
LockFree_Always == TRUE

\* threading.Lock.acquire returns only when no thread holds the lock.
LockFree == lock = 0

\* Variant: the lock stays with the task whose save_to_csv raised.
LockAfterError_Held(holder) == holder

\* The lock after an exception has left the `with lock:` block (line 156)
\* that the task `holder` had entered: __exit__ releases it.
LockAfterError(holder) == 0

\* Variant: the instances are written before their prices are computed.
ReportAfterError_Rows(file, rds_extended_support_instances) ==
    FileOf(file.content \o rds_extended_support_instances)

\* The report after save_to_csv raised in a price column (lines 197-200):
\* df.to_csv (line 205) was not reached.
ReportAfterError(file, rds_extended_support_instances) == file

\* `with lock:` (line 156) is entered and save_to_csv (line 157) runs under the
\* lock.  An exception leaves the `with` block and releases the lock.
SaveToCsv(i) ==
    /\ tasks[i].pc = "lock"
    /\ LockFree
    /\ \E api \in {PricingAPI, NoPriceLists} :
        \E frame \in {CostFrame(tasks[i].rows, db_engine_price_map, api)} :
         LET account == account_pool[i]
         IN  IF Len(tasks[i].rows) = 0
             THEN /\ api = PricingAPI
                  /\ tasks' = [tasks EXCEPT ![i].pc = "append"]
                  /\ appended' = appended \cup {account}
                  /\ reported' = [reported EXCEPT ![account] = {}]
                  /\ lock' = i
                  /\ UNCHANGED << report, db_engine_price_map, lookupLog >>
             ELSE IF frame.raised
             THEN /\ tasks' = [tasks EXCEPT ![i] = Failed("pricing")]
                  /\ lock' = LockAfterError(i)
                  /\ db_engine_price_map' = frame.cache
                  /\ lookupLog' = lookupLog \cup frame.lookups
                  /\ report' = ReportAfterError(report, tasks[i].rows)
                  /\ UNCHANGED << appended, reported >>
             ELSE /\ report' = FileOf(report.content \o frame.rows)
                  /\ db_engine_price_map' = frame.cache
                  /\ lookupLog' = lookupLog \cup frame.lookups
                  /\ appended' = appended \cup {account}
                  /\ reported' = [reported EXCEPT ![account] =
                                     { frame.rows[k].inst : k \in 1..Len(frame.rows) }]
                  /\ tasks' = [tasks EXCEPT ![i].pc = "append"]
                  /\ lock' = i
    /\ UNCHANGED << probe, exclude_without_all, run, prevOutcome, account_pool, phase, next,
                    processed_accounts, loaded, cacheFile,
                    DB_INSTANCE_MAPPING, mappingFile, calls >>

\* Variant: the file is written with the account just completed only.
DumpOnlyNew(list, account_id) == FileOf(<<account_id>>)

\* Variant: the file is written before the append of line 158.
DumpBeforeAppend(list, account_id) == FileOf(list)

\* json.dump(processed_accounts, f) into a file opened with 'w' (lines 159-160):
\* the file holds the list as it is after the append of line 158.
DumpProcessed(list, account_id) == FileOf(Append(list, account_id))

\* processed_accounts.append(account_id); json.dump(processed_accounts, f)
\* (lines 158-160) and the end of the `with` block.
Checkpoint(i) ==
    /\ tasks[i].pc = "append"
    /\ processed_accounts' = Append(processed_accounts, account_pool[i])
    /\ cacheFile' = DumpProcessed(processed_accounts, account_pool[i])
    /\ lock' = 0
    /\ tasks' = [tasks EXCEPT ![i].pc = "done", ![i].rows = << >>]
    /\ UNCHANGED << probe, exclude_without_all, run, prevOutcome, account_pool, phase, next,
                    loaded, report,
                    DB_INSTANCE_MAPPING, mappingFile, db_engine_price_map,
                    calls, appended, reported, lookupLog >>

\* ------------------------------------------------------------ end of run

\* as_completed yields a future whose result() raises: main re-raises (288) and
\* the executor's __exit__ starts waiting for the calls that are not finished.
MainRaise ==
    /\ phase = "wait"
    /\ \E i \in Dispatched : tasks[i].pc = "failed"
    /\ phase' = "raise"
    /\ UNCHANGED << probe, exclude_without_all, run, prevOutcome, account_pool, next, tasks, lock,
                    processed_accounts, loaded, cacheFile, report,
                    DB_INSTANCE_MAPPING, mappingFile, db_engine_price_map,
                    calls, appended, reported, lookupLog >>

\* Variant: the exception leaves main without waiting for the running calls.
ShutdownWaitsFor_None == {}

\* What the executor's shutdown waits for before main's exception leaves the
\* `with ThreadPoolExecutor` block.
ShutdownWaitsFor == Dispatched

\* shutdown(wait=True) has returned: the exception reaches the caller.
RunFails ==
    /\ phase = "raise"
    /\ \A i \in ShutdownWaitsFor : Terminal(i)
    /\ phase' = "failed"
    /\ UNCHANGED << probe, exclude_without_all, run, prevOutcome, account_pool, next, tasks, lock,
                    processed_accounts, loaded, cacheFile, report,
                    DB_INSTANCE_MAPPING, mappingFile, db_engine_price_map,
                    calls, appended, reported, lookupLog >>

\* Variant: the checkpoint file is left in place.
RemoveCache_Keep(file) == file

\* The checkpoint file after lines 298-299.
RemoveCache(file) == NoFile

\* Every future's result() returned: lines 291-299.
RunSucceeds ==
    /\ phase = "wait"
    /\ \A i \in Dispatched : tasks[i].pc = "done"
    /\ cacheFile' = RemoveCache(cacheFile)
    /\ phase' = "ok"
    /\ UNCHANGED << probe, exclude_without_all, run, prevOutcome, account_pool, next, tasks, lock,
                    processed_accounts, loaded, report,
                    DB_INSTANCE_MAPPING, mappingFile, db_engine_price_map,
                    calls, appended, reported, lookupLog >>

\* Variant: the cache file is not read, the list starts empty.
LoadProcessed_Empty(file) == << >>

\* The try block of lines 57-64: the list in the cache file, [] without one.
LoadProcessed(file) == IF file.exists THEN file.content ELSE << >>

\* The script is started again with the same arguments: module import of a new
\* process, and main up to line 270, which selects the same account_pool from
\* the same arguments and organization.  outfile is named after the minute (line 75): within the minute of
\* the previous run it is the previous report, later it is a path with no file.
Restart ==
    /\ phase \in {"ok", "failed"}
    /\ run < MaxRuns
    /\ run' = run + 1
    /\ prevOutcome' = phase
    /\ phase' = "start"
    /\ next' = 1
    /\ tasks' = [i \in Positions |-> NoTask]
    /\ lock' = 0
    /\ processed_accounts' = LoadProcessed(cacheFile)
    /\ loaded' = LoadProcessed(cacheFile)
    /\ \E same_minute \in BOOLEAN :
         report' = IF same_minute THEN report ELSE NoFile
    /\ reported' = [a \in AccountIds |->
                      IF a \in Elems(LoadProcessed(cacheFile)) THEN reported[a] ELSE {}]
    /\ DB_INSTANCE_MAPPING' = mappingFile
    /\ db_engine_price_map' = EmptyMap
    /\ calls' = {}
    /\ appended' = {}
    /\ lookupLog' = {}
    /\ UNCHANGED << probe, exclude_without_all, account_pool, cacheFile, mappingFile >>

Next ==
    \/ SelectAccounts
    \/ WriteHeader
    \/ Submit
    \/ \E i \in Positions : Collect(i)
    \/ \E i \in Positions : SaveToCsv(i)
    \/ \E i \in Positions : Checkpoint(i)
    \/ MainRaise
    \/ RunFails
    \/ RunSucceeds
    \/ Restart

Spec == Init /\ [][Next]_vars

\* A step of the main thread or of a worker thread of the running process.
Progress ==
    \/ SelectAccounts
    \/ WriteHeader
    \/ Submit
    \/ MainRaise
    \/ RunFails
    \/ RunSucceeds
    \/ \E i \in Positions : Checkpoint(i)
    \/ \E i \in Positions : Collect(i)
    \/ \E i \in Positions : SaveToCsv(i)

\* The scan with its scheduling: while some thread of the process can take a
\* step, a step is eventually taken (every remote call returns or fails);
\* nothing obliges the user to start the script again.
FairSpec == Spec /\ WF_vars(Progress)

\* ------------------------------------------- the classifier on its own

\* The characters of the tail of a version text.
TailChars == {"1", "2", "9", "."}

\* Version texts: an optional "5.7." and an optional "mysql_aurora." followed
\* by a tail of at most MaxTail characters.
ProbeVersions ==
    { head \o infix \o tail :
        head \in {<< >>, <<"5",".","7",".">>},
        infix \in {<< >>, <<"m","y","s","q","l","_","a","u","r","o","r","a",".">>},
        tail \in UNION { [1..n -> TailChars] : n \in 0..MaxTail } }

ClassifierInit ==
    /\ MainInit
    /\ probe \in { [kind |-> "classify", done |-> FALSE, eligible |-> FALSE,
                     rds_instance |-> [Engine |-> e, EngineVersion |-> v]] :
                      e \in EngineFilter \cup {mariadb}, v \in ProbeVersions }

\* is_extended_support_eligible(instance) is called and returns.
Classify ==
    /\ probe.kind = "classify" /\ ~probe.done
    /\ probe' = [probe EXCEPT !.done = TRUE,
                              !.eligible = is_extended_support_eligible(probe.rds_instance)]
    /\ UNCHANGED << exclude_without_all, run, prevOutcome, account_pool, phase,
                    next, tasks, lock, processed_accounts, loaded, cacheFile,
                    report, DB_INSTANCE_MAPPING, mappingFile, db_engine_price_map,
                    calls, appended, reported, lookupLog >>

ClassifierSpec == ClassifierInit /\ [][Classify]_vars

\* -------------------------------------- the cost calculator on its own

\* vCPU counts as the mapping holds them (text).
ProbeVCPUs == { <<"1">>, <<"2">>, <<"4">>, <<"8">>, <<"1","6">> }

NoCost == [Total |-> 0, Year1 |-> 0, Year2 |-> 0, Year3 |-> 0]

\* One single-AZ row per instance of the estate, region and vCPU count, and a
\* price table.
CostInit ==
    /\ MainInit
    /\ probe \in { [kind |-> "cost", done |-> FALSE, single |-> NoCost, multi |-> NoCost,
                     table |-> PriceSource(f),
                     row |-> [Engine |-> Instances[id].Engine,
                              EngineVersion |-> Instances[id].EngineVersion,
                              MultiAZ |-> FALSE, Region |-> r, vCPUs |-> v]] :
                      f \in EngineFamilies, id \in {"i1", "i3", "i4", "i5"},
                      r \in Elems(Regions), v \in ProbeVCPUs }

\* The derived columns are computed for the row as it is and for the same row
\* with MultiAZ set.
ComputeCost ==
    /\ probe.kind = "cost" /\ ~probe.done
    /\ probe' = [probe EXCEPT !.done = TRUE,
                              !.single = CostLine(probe.row, probe.table),
                              !.multi = CostLine([probe.row EXCEPT !.MultiAZ = TRUE],
                                                 probe.table)]
    /\ UNCHANGED << exclude_without_all, run, prevOutcome, account_pool, phase,
                    next, tasks, lock, processed_accounts, loaded, cacheFile,
                    report, DB_INSTANCE_MAPPING, mappingFile, db_engine_price_map,
                    calls, appended, reported, lookupLog >>

CostSpec == CostInit /\ [][ComputeCost]_vars

\* ------------------------- the price resolver and one row on their own

\* What the Pricing API holds for a region and a year tier: no product, a
\* product priced in USD, or a product priced in another currency only.
Offers == {"none", "USD", "CNY"}

\* The price lists of a Pricing API that holds, for every family, the products
\* `offer` names per year tier and region.
PriceListsOf(offer) ==
    [ f \in EngineFamilies |->
        [ y \in YearCodes |->
            { [regionCode |-> r, currency |-> offer[y][r],
               price |-> PriceSource(f)[r][y]] :
                r \in { q \in Elems(Regions) : offer[y][q] # "none" } } ] ]

NoResolution == [raised |-> FALSE, table |-> EmptyMap]
NoOutcome == [raised |-> FALSE, rows |-> << >>]

\* A Pricing API, an empty price cache, and one eligible instance of the
\* estate collected in one of the regions.
PricingInit ==
    /\ MainInit
    /\ probe \in { [kind |-> "pricing", step |-> "resolve",
                     api |-> PriceListsOf(offer),
                     instance |-> [inst |-> id, AccountId |-> caller_account,
                                   Region |-> r,
                                   vCPUs |-> ReferenceMapping[Instances[id].DBInstanceClass]],
                     resolved |-> NoResolution, outcome |-> NoOutcome] :
                      offer \in [YearCodes -> [Elems(Regions) -> Offers]],
                      id \in {"i1", "i3", "i4", "i5"}, r \in Elems(Regions) }

\* get_rds_extended_support_pricing is called for the family of the instance
\* and returns a table or raises.
ResolvePrices ==
    /\ probe.kind = "pricing" /\ probe.step = "resolve"
    /\ LET got == get_rds_extended_support_pricing(
                      EngineFamily(Row(probe.instance).Engine), EmptyMap, probe.api)
       IN  probe' = [probe EXCEPT
                        !.step = IF got.raised THEN "done" ELSE "cost",
                        !.resolved = [raised |-> got.raised, table |-> got.table]]
    /\ UNCHANGED << exclude_without_all, run, prevOutcome, account_pool, phase,
                    next, tasks, lock, processed_accounts, loaded, cacheFile,
                    report, DB_INSTANCE_MAPPING, mappingFile, db_engine_price_map,
                    calls, appended, reported, lookupLog >>

\* save_to_csv computes the derived columns of the instance with the table the
\* resolver returned, which the cache now holds.
ComputeRow ==
    /\ probe.kind = "pricing" /\ probe.step = "cost"
    /\ LET frame == CostFrame(<<probe.instance>>, probe.resolved.table, probe.api)
       IN  probe' = [probe EXCEPT
                        !.step = "done",
                        !.outcome = [raised |-> frame.raised, rows |-> frame.rows]]
    /\ UNCHANGED << exclude_without_all, run, prevOutcome, account_pool, phase,
                    next, tasks, lock, processed_accounts, loaded, cacheFile,
                    report, DB_INSTANCE_MAPPING, mappingFile, db_engine_price_map,
                    calls, appended, reported, lookupLog >>

PricingSpec == PricingInit /\ [][ResolvePrices \/ ComputeRow]_vars

\* ----------------------------------- the listing of one region on its own

\* Listings of one or two pages with one instance of a supported engine each.
ProbePages ==
    LET ids == { id \in DOMAIN Instances : Instances[id].Engine \in EngineFilter }
    IN  { << <<a>> >> : a \in ids } \cup { pp \in { << <<a>>, <<b>> >> : a, b \in ids } : pp[1] # pp[2] }

\* A listing, and how describe_db_instances answers: every page, or
\* InvalidClientTokenId after pages_read of them, or another error.
ListingInit ==
    /\ MainInit
    /\ probe \in { [kind |-> "listing", step |-> "list", pages |-> pages,
                     answer |-> answer, pages_read |-> n,
                     raised |-> FALSE, rds_instances |-> << >>, rows |-> << >>] :
                      pages \in ProbePages, answer \in {"ok", "skip", "error"},
                      n \in 0..2 }
    /\ probe.pages_read <= Len(probe.pages)
    /\ probe.answer = "ok" => probe.pages_read = Len(probe.pages)
    /\ probe.answer = "skip" => probe.pages_read < Len(probe.pages)
    /\ probe.answer = "error" => probe.pages_read = 0

\* get_rds_instances returns its list or raises (line 133).
ListRegion ==
    /\ probe.kind = "listing" /\ probe.step = "list"
    /\ probe' = IF AbortsTask(probe.answer)
                THEN [probe EXCEPT !.step = "done", !.raised = TRUE]
                ELSE [probe EXCEPT !.step = "classify",
                                   !.rds_instances =
                                       get_rds_instances(probe.pages, probe.answer,
                                                         probe.pages_read)]
    /\ UNCHANGED << exclude_without_all, run, prevOutcome, account_pool, phase,
                    next, tasks, lock, processed_accounts, loaded, cacheFile,
                    report, DB_INSTANCE_MAPPING, mappingFile, db_engine_price_map,
                    calls, appended, reported, lookupLog >>

\* The loop over rds_instances (lines 136-152) shortlists the eligible ones,
\* with a mapping that knows every class.
ClassifyRegion ==
    /\ probe.kind = "listing" /\ probe.step = "classify"
    /\ probe' = [probe EXCEPT
                    !.step = "done",
                    !.rows = Shortlist(probe.rds_instances, caller_account,
                                       Regions[1], ReferenceMapping, TRUE).rows]
    /\ UNCHANGED << exclude_without_all, run, prevOutcome, account_pool, phase,
                    next, tasks, lock, processed_accounts, loaded, cacheFile,
                    report, DB_INSTANCE_MAPPING, mappingFile, db_engine_price_map,
                    calls, appended, reported, lookupLog >>

ListingSpec == ListingInit /\ [][ListRegion \/ ClassifyRegion]_vars

\* ------------------------------- the mapping regeneration, step by step

\* The documentation's table as it was before db.r6g.large was added to it.
OldReference == StaleMapping

\* The threads that run the lines 146-150, one for each account of the
\* organization.
Workers == {1, 2}

\* Two tasks have each classified an instance as eligible and are at line 146
\* with its class; the documentation page holds one table throughout.
MappingInit ==
    /\ MainInit
    /\ probe \in { [kind |-> "mapping", docs |-> d,
                     worker |-> [w \in Workers |->
                                   [pc |-> "check", class |-> c[w], db_map |-> EmptyMap,
                                    regenerated |-> FALSE, unreachable |-> FALSE,
                                    vCPUs |-> << >>]]] :
                      d \in {ReferenceMapping, OldReference},
                      c \in [Workers -> DOMAIN ReferenceMapping] }

\* The variables the steps of lines 146-160 leave alone.
MappingFrame ==
    UNCHANGED << exclude_without_all, run, prevOutcome, account_pool, phase,
                 next, tasks, lock, report, loaded, db_engine_price_map,
                 calls, appended, reported, lookupLog >>

\* Line 146: the class is looked for in the global mapping.
CheckClass(w) ==
    /\ probe.kind = "mapping" /\ probe.worker[w].pc = "check"
    /\ probe' = [probe EXCEPT !.worker[w].pc =
                    IF MissingClass(probe.worker[w].class, DB_INSTANCE_MAPPING)
                    THEN "fetch" ELSE "lookup"]
    /\ UNCHANGED << DB_INSTANCE_MAPPING, mappingFile, processed_accounts, cacheFile >>
    /\ MappingFrame

\* Line 148, the call: get_rds_instance_mapping() fetches the page, writes
\* rds_instance_mapping.json and returns db_map, or raises when the page cannot
\* be fetched.
FetchMapping(w) ==
    /\ probe.kind = "mapping" /\ probe.worker[w].pc = "fetch"
    /\ \E docs_ok \in BOOLEAN :
         IF docs_ok
         THEN /\ mappingFile' = probe.docs
              /\ probe' = [probe EXCEPT !.worker[w].pc = "assign",
                                        !.worker[w].db_map = probe.docs]
         ELSE /\ probe' = [probe EXCEPT !.worker[w].pc = "failed",
                                        !.worker[w].unreachable = TRUE]
              /\ UNCHANGED mappingFile
    /\ UNCHANGED << DB_INSTANCE_MAPPING, processed_accounts, cacheFile >>
    /\ MappingFrame

\* Line 148, the assignment to the global.
AssignMapping(w) ==
    /\ probe.kind = "mapping" /\ probe.worker[w].pc = "assign"
    /\ DB_INSTANCE_MAPPING' = probe.worker[w].db_map
    /\ probe' = [probe EXCEPT !.worker[w].pc = "lookup",
                              !.worker[w].regenerated = TRUE]
    /\ UNCHANGED << mappingFile, processed_accounts, cacheFile >>
    /\ MappingFrame

\* Line 150: DB_INSTANCE_MAPPING[class], KeyError when the class is not a key.
LookupClass(w) ==
    /\ probe.kind = "mapping" /\ probe.worker[w].pc = "lookup"
    /\ probe' = IF probe.worker[w].class \in DOMAIN DB_INSTANCE_MAPPING
                THEN [probe EXCEPT !.worker[w].pc = "emitted",
                                   !.worker[w].vCPUs =
                                       DB_INSTANCE_MAPPING[probe.worker[w].class]]
                ELSE [probe EXCEPT !.worker[w].pc = "failed"]
    /\ UNCHANGED << DB_INSTANCE_MAPPING, mappingFile, processed_accounts, cacheFile >>
    /\ MappingFrame

\* Lines 156-160 for the task whose row was emitted: its account is
\* checkpointed.
FinishAccount(w) ==
    /\ probe.kind = "mapping" /\ probe.worker[w].pc = "emitted"
    /\ processed_accounts' = Append(processed_accounts, OrgAccounts[w])
    /\ cacheFile' = DumpProcessed(processed_accounts, OrgAccounts[w])
    /\ probe' = [probe EXCEPT !.worker[w].pc = "done"]
    /\ UNCHANGED << DB_INSTANCE_MAPPING, mappingFile >>
    /\ MappingFrame

MappingNext ==
    \E w \in Workers :
        \/ CheckClass(w)
        \/ FetchMapping(w)
        \/ AssignMapping(w)
        \/ LookupClass(w)
        \/ FinishAccount(w)

MappingSpec == MappingInit /\ [][MappingNext]_vars

\* ------------------------------------------------------------ properties

\* The account ids in the persisted checkpoint (none without a file).
Persisted == IF cacheFile.exists THEN Elems(cacheFile.content) ELSE {}

\* The report holds a row of the instance id for the account.
InReport(account, id) ==
    \E k \in 1..Len(report.content) :
        report.content[k].inst = id /\ report.content[k].AccountId = account

DoneTasks == { i \in Dispatched : tasks[i].pc = "done" }
FailedTasks == { i \in Dispatched : tasks[i].pc = "failed" }

\* C1 (as stated): in a run that starts with an empty checkpoint, whenever no
\* task is inside the append-and-checkpoint critical section, an account is in
\* the persisted checkpoint exactly when its rows have been appended.
C1_Original ==
    (loaded = << >> /\ lock = 0) =>
        \A a \in AccountIds : a \in Persisted <=> a \in appended

\* C1 (amended): the same, in every state before the run removes the checkpoint
\* file at the end of a fully successful run.
C1_Amended ==
    (loaded = << >> /\ lock = 0 /\ phase # "ok") =>
        \A a \in AccountIds : a \in Persisted <=> a \in appended

\* C1 witness: outside the critical section one account is checkpointed with
\* its rows appended while another account is not.
C1_Witness ==
    /\ loaded = << >> /\ lock = 0 /\ phase # "ok"
    /\ \E a, b \in AccountIds :
         /\ a \in Persisted /\ a \in appended /\ reported[a] # {}
         /\ b \notin Persisted /\ b \notin appended
         /\ \E j \in Dispatched : account_pool[j] = b

\* C2 (as stated): in a resumed run, once the header is written, the rows of
\* every checkpointed account are in the report file the run writes to.
C2_Claim ==
    (loaded # << >> /\ phase # "start") =>
        \A a \in Persisted : \A id \in reported[a] : InReport(a, id)

\* C3: when the run has failed, the persisted checkpoint is exactly the loaded
\* accounts plus the accounts of the tasks that succeeded, and an account whose
\* only tasks failed is not in it.
C3_CheckpointAfterFailure ==
    phase = "failed" =>
        /\ Persisted = Elems(loaded) \cup { account_pool[i] : i \in DoneTasks }
        /\ \A i \in FailedTasks :
             (\A j \in DoneTasks : account_pool[j] # account_pool[i])
                => account_pool[i] \notin Persisted

\* C3 witness: a failed run in which one account succeeded and another failed.
C3_Witness ==
    /\ phase = "failed"
    /\ \E i \in DoneTasks, j \in FailedTasks : account_pool[i] # account_pool[j]

\* C4: an account of the checkpoint loaded at startup gets no task and no
\* collector call; only pool accounts outside the loaded checkpoint are processed.
C4_LoadedSkipped ==
    /\ \A a \in Elems(loaded) :
         a \notin calls /\ \A i \in Dispatched : account_pool[i] # a
    /\ \A a \in AccountIds :
         a \in calls => a \in Elems(account_pool) \ Elems(loaded)

\* C4 witness: a resumed run that skipped a loaded pool account and collected
\* another account.
C4_Witness ==
    /\ \E a \in Elems(loaded) : a \in Elems(account_pool)
    /\ \E b \in AccountIds : b \in calls

\* C5 (as stated): after a first run that completed fully, the second run makes
\* no collector call and dispatches no task.
C5_Original ==
    prevOutcome = "ok" =>
        Dispatched = {} /\ calls = {}

\* C5 (amended): after a first run that completed fully the checkpoint is gone:
\* the second run starts with an empty checkpoint set and dispatches a task for
\* every account of the pool, whose collector is called again.
C5_Amended ==
    prevOutcome = "ok" =>
        /\ loaded = << >>
        /\ phase \in {"wait", "raise", "ok", "failed"} =>
             \A a \in Elems(account_pool) : \E i \in Dispatched : account_pool[i] = a
        /\ phase \in {"ok", "failed"} =>
             \A a \in Elems(account_pool) : a \in calls

\* C5 witness: the second run after a full success has dispatched its tasks.
C5_Witness ==
    /\ prevOutcome = "ok" /\ phase = "wait"
    /\ Dispatched # {}
    /\ \E a \in AccountIds : a \in calls

\* C6 (as stated): after a fully successful run there is no checkpoint file and
\* the next run loads an empty set; after a run with a failed task the
\* checkpoint file exists.
C6_Original ==
    /\ phase = "ok" => ~cacheFile.exists /\ FailedTasks = {}
    /\ prevOutcome = "ok" => loaded = << >>
    /\ phase = "failed" => FailedTasks # {} /\ cacheFile.exists

\* C6 (amended): ... after a run with a failed task the checkpoint file is not
\* deleted: it exists exactly when it existed at startup or a task has
\* checkpointed its account.
C6_Amended ==
    /\ phase = "ok" => ~cacheFile.exists /\ FailedTasks = {}
    /\ prevOutcome = "ok" => loaded = << >>
    /\ phase = "failed" =>
         /\ FailedTasks # {}
         /\ cacheFile.exists <=> (loaded # << >> \/ DoneTasks # {})
         /\ Elems(loaded) \subseteq Persisted

\* C6 witness: a failed run that leaves the checkpoint of a completed account.
C6_Witness ==
    phase = "failed" /\ cacheFile.exists /\ DoneTasks # {}

\* C7: when the run reports failure, every dispatched task has run to its end
\* (none was cancelled), and each one that succeeded has its rows in the report
\* and its account in the checkpoint.
C7_NoCancellation ==
    phase = "failed" =>
        \A i \in Dispatched :
            /\ Terminal(i)
            /\ tasks[i].pc = "done" =>
                 /\ account_pool[i] \in Persisted
                 /\ account_pool[i] \in appended
                 /\ \A id \in reported[account_pool[i]] : InReport(account_pool[i], id)

\* C7 witness: the run has reported failure, and a task other than the failed
\* one has appended rows and checkpointed.
C7_Witness ==
    /\ phase = "failed"
    /\ \E i \in DoneTasks : reported[account_pool[i]] # {}
    /\ FailedTasks # {}

\* C8 (as stated): every price lookup returns the table of the engine family it
\* was made for.
C8_Claim ==
    \A l \in lookupLog : l.table = PriceSource(l.family)

\* The version text contains "2.11" or "2.12".
IsFlatVersion(version) ==
    Contains(<<"2",".","1","1">>, version) \/ Contains(<<"2",".","1","2">>, version)

\* C9 (as stated): a report row of aurora-mysql 2.11/2.12 has Year 3 equal to
\* Year 1; every other row has Year 3 = total vCPUs x the yr_3_price of its own
\* engine family and region x 24 x 365.
C9_Claim ==
    \A k \in 1..Len(report.content) :
        LET row  == report.content[k]
            inst == Instances[row.inst]
        IN  IF inst.Engine = aurora_mysql /\ IsFlatVersion(inst.EngineVersion)
            THEN row.Year3 = row.Year1
            ELSE row.Year3 = FormatPrice(row.Total
                     * PriceSource(EngineFamily(inst.Engine))[row.Region].yr_3_price
                     * 24 * 365)

\* C10 (as stated): a report row has total vCPUs = vCPUs x (2 if MultiAZ else 1)
\* and Year 1 = Year 2 = total vCPUs x the yr_1_2_price of its engine family
\* and region x 24 x 365.
C10_Claim ==
    \A k \in 1..Len(report.content) :
        LET row  == report.content[k]
            inst == Instances[row.inst]
            rate == PriceSource(EngineFamily(inst.Engine))[row.Region].yr_1_2_price
        IN  /\ row.Total = ParseInt(row.vCPUs) * (IF inst.MultiAZ THEN 2 ELSE 1)
            /\ row.Year1 = FormatPrice(row.Total * rate * 24 * 365)
            /\ row.Year2 = row.Year1

\* C11: for any row and any price table, each yearly cost computed with MultiAZ
\* set is exactly twice the same cost computed for the row without MultiAZ.
C11_MultiAZDoubling ==
    (probe.kind = "cost" /\ probe.done) =>
        /\ probe.multi.Year1 = 2 * probe.single.Year1
        /\ probe.multi.Year2 = 2 * probe.single.Year2
        /\ probe.multi.Year3 = 2 * probe.single.Year3

\* C11 witness: costs were computed, with a Year 3 cost that differs from Year 1.
C11_Witness ==
    /\ probe.kind = "cost" /\ probe.done
    /\ probe.single.Year1 > 0
    /\ probe.single.Year3 # probe.single.Year1
    /\ probe.multi.Year3 > probe.single.Year3

\* C12 (as stated): for aurora-mysql the classifier returns true exactly when
\* the version text contains "2.11" or "2.12".
C12_Original ==
    (probe.kind = "classify" /\ probe.done /\ probe.rds_instance.Engine = aurora_mysql) =>
        (probe.eligible <=> IsFlatVersion(probe.rds_instance.EngineVersion))

\* The version text contains "mysql_aurora.2.11" or "mysql_aurora.2.12".
IsAuroraMysql2(version) ==
    \/ Contains(<<"m","y","s","q","l","_","a","u","r","o","r","a",".","2",".","1","1">>, version)
    \/ Contains(<<"m","y","s","q","l","_","a","u","r","o","r","a",".","2",".","1","2">>, version)

\* C12 (amended): for aurora-mysql the classifier returns true exactly when the
\* version text contains "mysql_aurora.2.11" or "mysql_aurora.2.12".
C12_Amended ==
    (probe.kind = "classify" /\ probe.done /\ probe.rds_instance.Engine = aurora_mysql) =>
        (probe.eligible <=> IsAuroraMysql2(probe.rds_instance.EngineVersion))

\* C12 witness: an aurora-mysql version of the 2.12 family was classified eligible.
C12_Witness ==
    /\ probe.kind = "classify" /\ probe.done /\ probe.eligible
    /\ probe.rds_instance.Engine = aurora_mysql
    /\ probe.rds_instance.EngineVersion =
         <<"5",".","7",".","m","y","s","q","l","_","a","u","r","o","r","a",".","2",".","1","2">>

\* C13 (as stated): for postgres the classifier returns true exactly when the
\* text before the first "." is "11" or "12".
C13_Claim ==
    (probe.kind = "classify" /\ probe.done /\ probe.rds_instance.Engine = postgres) =>
        (probe.eligible <=>
            SplitFirst(probe.rds_instance.EngineVersion, ".") \in {<<"1","1">>, <<"1","2">>})

\* C14: every row of the report is for an instance of one of the four supported
\* engines that the classifier finds eligible; an instance the classifier
\* rejects has no row, for any account.
C14_OnlyEligibleRows ==
    /\ \A k \in 1..Len(report.content) :
         /\ Row(report.content[k]).Engine \in {aurora_mysql, aurora_postgresql, mysql, postgres}
         /\ is_extended_support_eligible(Instances[report.content[k].inst])
    /\ \A a \in AccountIds, id \in DOMAIN Instances :
         ~is_extended_support_eligible(Instances[id]) => ~InReport(a, id)

\* C14 witness: the report holds the rows listed after postgres 13.4 (account
\* 111) and after the mariadb instance (account 222), and no row of either.
C14_Witness ==
    /\ InReport("111", "i1") /\ ~InReport("111", "i2")
    /\ InReport("222", "i5") /\ ~InReport("222", "i6")

\* C15: a task never fails because a listing answered InvalidClientTokenId:
\* it goes on with the next region (or to the append after the last one); a
\* task whose listing failed otherwise does not go on: it is Failed and has
\* not checkpointed its account.
C15_RegionFailurePolicy ==
    \A i \in Positions :
        /\ tasks[i].cause # "InvalidClientTokenId"
        /\ (tasks[i].skipped # {} /\ tasks[i].pc = "collect") =>
              /\ tasks[i].region = tasks[i].visited + 1
              /\ tasks[i].region <= Len(Regions)
              /\ \A r \in tasks[i].skipped : r < tasks[i].region
        /\ tasks[i].cause = "listing" =>
              /\ tasks[i].pc = "failed"
              /\ account_pool[i] \in Persisted =>
                    \E j \in DoneTasks : account_pool[j] = account_pool[i]

\* C15 witness: a task skipped its first region, collected the next and is
\* Done, while the task of another account failed on a listing and is not
\* checkpointed.
C15_Witness ==
    /\ \E i \in DoneTasks : tasks[i].skipped = {1} /\ account_pool[i] \in Persisted
    /\ \E j \in FailedTasks : tasks[j].cause = "listing" /\ account_pool[j] \notin Persisted

\* The task has left the loop over the regions.
Collected(i) == tasks[i].pc \in {"lock", "append", "done"}

\* C16 (as stated): a task that has collected its regions assumed the role
\* exactly once for a member account and not at all for the management account.
C16_Original ==
    \A i \in Positions :
        Collected(i) =>
            tasks[i].roles = IF account_pool[i] # caller_account THEN 1 ELSE 0

\* C16 (amended): the role is assumed once for every region the task iterates
\* for a member account, and not at all for the management account.
C16_Amended ==
    \A i \in Positions :
        /\ tasks[i].pc \in {"collect", "lock", "append", "done"} =>
              tasks[i].roles = IF account_pool[i] # caller_account
                               THEN tasks[i].visited ELSE 0
        /\ Collected(i) => tasks[i].visited = Len(Regions)

\* C16 witness: a member account's task and the management account's task have
\* both collected all regions.
C16_Witness ==
    /\ \E i \in Positions :
         Collected(i) /\ account_pool[i] # caller_account /\ tasks[i].roles = Len(Regions)
    /\ \E j \in Positions :
         Collected(j) /\ account_pool[j] = caller_account /\ tasks[j].roles = 0

\* C17 (as stated): no two tasks of a run are for the same account, and no
\* account is in the checkpoint list twice.
C17_Claim ==
    /\ \A i, j \in Dispatched : i # j => account_pool[i] # account_pool[j]
    /\ \A k, l \in 1..Len(processed_accounts) :
         k # l => processed_accounts[k] # processed_accounts[l]

C19_AllRegionsFirst ==
    /\ \A i \in Positions :
         Collected(i) => tasks[i].visited = Len(Regions)
    /\ \A a \in Persisted \ Elems(loaded) :
         \E i \in DoneTasks : account_pool[i] = a /\ tasks[i].visited = Len(Regions)

\* C19 witness: one account is checkpointed while the task of another account
\* is still in its loop over the regions and is not checkpointed.
C19_Witness ==
    /\ \E i \in DoneTasks : account_pool[i] \in Persisted \ Elems(loaded)
    /\ \E j \in Positions :
         tasks[j].pc = "collect" /\ tasks[j].region = 2 /\ account_pool[j] \notin Persisted

\* The tasks inside the section of lines 156-160.
InSection == { i \in Positions : tasks[i].pc = "append" }

\* C20: at most one task is inside the section that appends the rows, extends
\* the checkpoint list and writes the checkpoint file, and it holds the lock.
C20_MutualExclusion ==
    /\ Cardinality(InSection) <= 1
    /\ \A i \in InSection : lock = i
    /\ lock # 0 => lock \in InSection

\* C20 witness: a task is between its append and its checkpoint while another
\* task waits for the lock.
C20_Witness ==
    \E i, j \in Positions :
        tasks[i].pc = "append" /\ tasks[j].pc = "lock"

\* ---- C21

\* The state of the account at pool position i as the specification names it.
Status(i) ==
    CASE tasks[i].pc = "none"   -> "Pending"
      [] tasks[i].pc = "done"   -> "Done"
      [] tasks[i].pc = "failed" -> "Failed"
      [] OTHER                  -> "InProgress"

\* The moves of an account within one process.
Moves == { <<"Pending", "InProgress">>, <<"InProgress", "Done">>,
           <<"InProgress", "Failed">> }

\* C21: within a run every account of the pool moves only along
\* Pending -> InProgress -> Done or Pending -> InProgress -> Failed: every step
\* of a run leaves the state of each pool position as it is or makes one of
\* these moves, so Done and Failed are terminal, nothing returns to Pending and
\* a failed account is not submitted again.
C21_Lifecycle ==
    [][ run' = run =>
          \A i \in Positions :
             \/ Status(i)' = Status(i)
             \/ <<Status(i), Status(i)'>> \in Moves ]_vars

\* A run has ended with one account Done and another Failed.
C21_Witness ==
    /\ phase = "failed"
    /\ \E i, j \in Positions : Status(i) = "Done" /\ Status(j) = "Failed"

\* ---- C22

\* C22: the cost calculation never raises for an eligible instance: for an
\* eligible instance collected in a region of the region set and a price table
\* the resolver returned, the total vCPUs and the three yearly costs are
\* computed and no error is raised.
C22_Claim ==
    (probe.kind = "pricing" /\ probe.step = "done" /\ ~probe.resolved.raised)
        => ~probe.outcome.raised

\* ---- C23

\* The Pricing API holds no product of the year tier for the region.
NoData(api, family, region, year_code) ==
    \A sku \in api[family][year_code] : sku.regionCode # region

\* C23: the resolver fails whenever the pricing source returns no data for the
\* requested family, region or year tier, and a table it returns has the
\* yr_1_2_price and the yr_3_price entry of the region the caller asks about.
C23_Claim ==
    (probe.kind = "pricing" /\ probe.step # "resolve") =>
        LET family == EngineFamily(Row(probe.instance).Engine)
            region == probe.instance.Region
        IN  /\ (\E y \in YearCodes : NoData(probe.api, family, region, y))
                    => probe.resolved.raised
            /\ ~probe.resolved.raised =>
                    /\ region \in DOMAIN probe.resolved.table
                    /\ YearCodes \subseteq DOMAIN probe.resolved.table[region]

\* ---- C24

\* C24: a worker that meets a class missing from the shared mapping regenerates
\* the whole mapping and looks the class up again.  Under every interleaving
\* of two workers: once a worker has assigned its regenerated table, the shared
\* mapping and the mapping file equal the documentation's table; every emitted
\* row carries the documentation's vCPU value of its class; a worker fails only
\* when the page cannot be fetched or the class is missing from the
\* documentation's table, it does fail when the class is still missing after
\* the regeneration, and the account of a failed worker is not checkpointed.
C24_Regeneration ==
    probe.kind = "mapping" =>
        \A w \in Workers :
            LET worker == probe.worker[w]
            IN  /\ worker.regenerated =>
                       /\ DB_INSTANCE_MAPPING = probe.docs
                       /\ mappingFile = probe.docs
                /\ worker.pc \in {"emitted", "done"} =>
                       /\ worker.class \in DOMAIN probe.docs
                       /\ worker.vCPUs = probe.docs[worker.class]
                /\ worker.pc = "failed" =>
                       /\ worker.unreachable \/ worker.class \notin DOMAIN probe.docs
                       /\ OrgAccounts[w] \notin Persisted
                /\ (worker.regenerated /\ worker.class \notin DOMAIN probe.docs) =>
                       worker.pc \in {"lookup", "failed"}

\* Both workers met db.r6g.large before either had assigned a regenerated
\* table, both regenerated, and both rows were emitted.
C24_Witness ==
    /\ probe.kind = "mapping"
    /\ \A w \in Workers :
          /\ probe.worker[w].pc = "done"
          /\ probe.worker[w].regenerated
          /\ probe.worker[w].class = "db.r6g.large"
          /\ probe.worker[w].vCPUs = <<"2">>

\* ---- C25

\* The process has ended and every dispatched account is Done or Failed.
RunOver ==
    /\ phase \in {"invalid", "ok", "failed"}
    /\ \A i \in Dispatched : Terminal(i)

\* The steps the task at pool position i has left at most.
TaskSteps(i) ==
    CASE tasks[i].pc = "collect" -> Len(Regions) - tasks[i].region + 3
      [] tasks[i].pc = "lock"    -> 2
      [] tasks[i].pc = "append"  -> 1
      [] OTHER                   -> 0

RECURSIVE Sum(_, _)
\* f[1] + ... + f[n]
Sum(f, n) == IF n = 0 THEN 0 ELSE f[n] + Sum(f, n - 1)

\* The steps the running process has left at most.
StepsLeft ==
    CASE phase = "select" -> 5 + MaxPool * (Len(Regions) + 3)
      [] phase = "start"  -> 4 + Len(account_pool) * (Len(Regions) + 3)
      [] phase = "dispatch" ->
             3 + (Len(account_pool) + 1 - next) * (Len(Regions) + 3)
               + Sum([i \in Positions |-> TaskSteps(i)], MaxPool)
      [] phase = "wait"   -> 2 + Sum([i \in Positions |-> TaskSteps(i)], MaxPool)
      [] phase = "raise"  -> 1 + Sum([i \in Positions |-> TaskSteps(i)], MaxPool)
      [] OTHER            -> 0

\* C25: under fair scheduling every run terminates with each dispatched
\* account Done or Failed, and no run deadlocks: as long as the run is not
\* over some thread of the process can take a step (a task that failed inside
\* the critical section has released the lock, so a task waiting for it can
\* enter), and every step of the process lowers the number of steps it has
\* left, which is never negative; a run in which steps are taken while they
\* can be is therefore over after finitely many.
C25_Termination ==
    /\ [](RunOver \/ ENABLED Progress)
    /\ [](StepsLeft >= 0)
    /\ [][run' = run => StepsLeft' < StepsLeft]_vars

\* The same as a leads-to property of FairSpec.
RunsEnd == ~RunOver ~> RunOver

\* A run is over in which a task failed inside the critical section and
\* another task of the run is Done.
C25_Witness ==
    /\ RunOver
    /\ \E i, j \in Dispatched :
          /\ tasks[i].pc = "failed" /\ tasks[i].cause = "pricing"
          /\ tasks[j].pc = "done"

\* ---- C26

\* The report holds a row of the account.
HasRows(account) ==
    \E k \in 1..Len(report.content) : report.content[k].AccountId = account

\* C26: the rows of an account are written all or nothing: while a task of an
\* account has failed (during region collection, vCPU lookup or cost
\* computation) and no other task of that account has passed save_to_csv, the
\* report holds no row of the account.
C26_AllOrNothing ==
    \A i \in FailedTasks :
        (\A j \in 1..Len(account_pool) :
              account_pool[j] = account_pool[i]
                  => tasks[j].pc \notin {"append", "done"})
            => ~HasRows(account_pool[i])

\* A task with instances to report failed in the cost computation; the report
\* holds the rows of another account and none of the failed one.
C26_Witness ==
    /\ phase = "failed"
    /\ \E i \in FailedTasks :
          /\ tasks[i].cause = "pricing"
          /\ account_pool[i] \notin Persisted
          /\ ~HasRows(account_pool[i])
          /\ Len(report.content) > 0

\* ---- C27

\* C27: a region skipped by the region-not-enabled rule contributes no row:
\* when the listing of a region met InvalidClientTokenId, no instance of the
\* pages read before the error is classified, and the region adds no row.
C27_Claim ==
    (probe.kind = "listing" /\ probe.step # "list" /\ probe.answer = "skip") =>
        /\ probe.rds_instances = << >>
        /\ probe.rows = << >>

\* ---- C28

\* C28: during a run the persisted checkpoint set only grows: every write of
\* the checkpoint file holds all account ids the file held before, the ids
\* loaded from the checkpoint at startup, and the account of the task that
\* completes with the write, under any interleaving of the account tasks.
\* (The removal of the file after a run in which every task succeeded is not
\* a write.)
C28_CheckpointGrows ==
    [][ (run' = run /\ cacheFile' # cacheFile /\ cacheFile'.exists) =>
          /\ Elems(cacheFile.content) \subseteq Elems(cacheFile'.content)
          /\ Elems(loaded) \subseteq Elems(cacheFile'.content)
          /\ \E i \in Positions :
                /\ tasks[i].pc = "append" /\ tasks'[i].pc = "done"
                /\ account_pool[i] \in Elems(cacheFile'.content) ]_vars

\* A resumed run has written the checkpoint: the file holds the ids loaded
\* at startup and an account completed since.
C28_Witness ==
    /\ loaded # << >>
    /\ phase \in {"dispatch", "wait", "raise", "failed"}
    /\ cacheFile.exists
    /\ Elems(loaded) \subseteq Persisted
    /\ \E i \in DoneTasks : account_pool[i] \in Persisted \ Elems(loaded)

\* ---- C29

\* C29: the global price table is read and written only by a task that holds
\* the lock of the append and the checkpoint: every step of a process that
\* looks a price up or changes the table is the step of a task that found the
\* lock free and took it.  Once the table holds the result of a successful
\* call, it stays as it is and no lookup of the same process calls the
\* Pricing API again.
C29_CacheUnderLock ==
    /\ [][ ( /\ run' = run
             /\ \/ db_engine_price_map' # db_engine_price_map
                \/ lookupLog' # lookupLog ) =>
           ( /\ lock = 0
             /\ \E i \in Positions :
                   /\ tasks[i].pc = "lock"
                   /\ \/ tasks'[i].pc = "append" /\ lock' = i
                      \/ tasks'[i].pc = "failed" /\ lock' = 0 ) ]_vars
    /\ [][ ( run' = run /\ DOMAIN db_engine_price_map # {} ) =>
           ( /\ db_engine_price_map' = db_engine_price_map
             /\ \A l \in lookupLog' \ lookupLog : ~l.fetched ) ]_vars

\* C29 witness: one lookup called the Pricing API and filled the table, a
\* lookup for another engine family was answered from the table, and the lock
\* is held by a task that has appended its rows.
C29_Witness ==
    /\ \E a, b \in lookupLog :
          /\ a.fetched /\ DOMAIN a.table # {}
          /\ ~b.fetched /\ b.family # a.family /\ b.table = a.table
    /\ \E i \in Positions : tasks[i].pc = "append" /\ lock = i

====
